---- MODULE Spec2Model ----
(***************************************************************************)
(* Campus event management backend (src/app.py): three SQLite tables       *)
(* (events, students, registrations) and the Flask handlers that write and *)
(* read them.  Every handler opens its own connection per statement,       *)
(* so a handler is one or two separately committed statements; several     *)
(* callers may be inside handlers at once and their statements interleave. *)
(***************************************************************************)
EXTENDS FiniteSets, Integers, Sequences, TLC

VARIABLES
    events,           \* table events, rows in rowid order
    students,         \* table students, rows in rowid order
    registrations,    \* table registrations, rows in rowid order
    sqlite_sequence,  \* AUTOINCREMENT counter of each table
    foreign_keys,     \* whether this SQLite build enforces FOREIGN KEY clauses
    open_conns,       \* connections opened by get_conn and not closed
    call,             \* per caller: the handler it is inside and its locals
    response          \* the HTTP response being returned, NoResponse if none

vars == <<events, students, registrations, sqlite_sequence, foreign_keys, open_conns, call,
          response>>

tables == <<events, students, registrations, sqlite_sequence>>

----------------------------------------------------------------------------
(* Bounds and input domains *)

MaxEvents == 2
MaxStudents == 2
MaxRegs == 2

\* rows of registrations in the stores the reports are computed over
MaxReportRegs == 3

Callers == {"c1", "c2"}

\* JSON key missing from the request body (data.get returns None)
ABSENT == "<absent>"

\* request bodies of POST /api/events: a complete one, and bodies with one
\* required field missing or empty
ValidEvent ==
    [title |-> "Hack Day", description |-> "24h build", date |-> "2024-03-01",
     type |-> ABSENT, college_id |-> ABSENT]

EventInputs ==
    { ValidEvent,
      [ValidEvent EXCEPT !.title = ABSENT],
      [ValidEvent EXCEPT !.description = ""],
      [ValidEvent EXCEPT !.date = ABSENT] }

\* request bodies of POST /api/students
ValidStudent == [name |-> "Asha", email |-> "a@x.edu", college_id |-> "C-001"]

StudentInputs ==
    { ValidStudent,
      [ValidStudent EXCEPT !.email = "b@x.edu"],
      [ValidStudent EXCEPT !.name = ""],
      [ValidStudent EXCEPT !.email = ABSENT],
      [ValidStudent EXCEPT !.college_id = ""] }

\* ids as sent by the caller; 0 stands for every value Python treats as false
\* (key missing, null, 0)
EventIdInputs == 0..1
StudentIdInputs == 0..2
RegIdInputs == 0..2

RegisterInputs ==
    [event_id : EventIdInputs \ {0}, student_id : StudentIdInputs \ {0}]
        \cup {[event_id |-> 0, student_id |-> 1], [event_id |-> 1, student_id |-> 0]}

PresentInputs == {ABSENT, "true", "false"}

AttendanceInputs ==
    [registration_id : RegIdInputs \ {0}, present : PresentInputs]
        \cup {[registration_id |-> 0, present |-> ABSENT]}

\* JSON values sent as feedback: kind says what n encodes.
\*   none: key missing or null;  int: the integer n;  float: the number n/10;
\*   str: the decimal string of n;  word: a string that is no number
FeedbackInputs ==
    { [kind |-> "none", n |-> 0],
      [kind |-> "int", n |-> 0], [kind |-> "int", n |-> 5], [kind |-> "int", n |-> 6],
      [kind |-> "float", n |-> 59], [kind |-> "float", n |-> 9],
      [kind |-> "str", n |-> 5],
      [kind |-> "word", n |-> 0] }

\* request bodies of POST /api/feedback: every accepted value for every id, and
\* every other value for registration 1; one body without an id
FeedbackCallInputs ==
    [registration_id : RegIdInputs \ {0},
     feedback : {[kind |-> "int", n |-> 5], [kind |-> "float", n |-> 59], [kind |-> "str", n |-> 5]}]
        \cup [registration_id : {1}, feedback : FeedbackInputs]
        \cup {[registration_id |-> 0, feedback |-> [kind |-> "int", n |-> 5]]}

\* query strings of GET /api/events: no filter, a filter every event passes,
\* filters no event passes
ListEventInputs ==
    { [type |-> ABSENT, college_id |-> ABSENT],
      [type |-> "General", college_id |-> ABSENT],
      [type |-> "Workshop", college_id |-> "C-001"] }

\* the college_id parameter of GET /api/students
ListStudentInputs == {ABSENT, "C-001", "C-002"}

\* query strings of GET /api/registrations; 0 stands for a parameter that is
\* missing or empty
ListRegistrationInputs == [event_id : 0..1, student_id : {0, 2}]

\* the limit parameter of GET /api/reports/top-students: missing, the decimal
\* string of n, or a string that is no number
LimitInputs ==
    { [kind |-> "none", n |-> 0],
      [kind |-> "str", n |-> -1], [kind |-> "str", n |-> 0],
      [kind |-> "str", n |-> 1], [kind |-> "str", n |-> 2],
      [kind |-> "word", n |-> 0] }

\* request.args.get("limit", 3)
DefaultLimit == 3

----------------------------------------------------------------------------
(* Python helpers *)

\* `not x` for a text field: None and "" are false
Falsy(x) == x \in {ABSENT, ""}

\* `not x` for an id
FalsyId(x) == x = 0

\* data.get(key, default)
GetDefault(x, default) == IF x = ABSENT THEN default ELSE x

\* int(bool(data.get("present", 1)))
PresentFlag(present) == IF present = "false" THEN 0 ELSE 1

\* int(feedback): [ok, v]; a float is truncated toward zero, a string is
\* parsed as a decimal integer, anything else raises
PyInt(feedback) ==
    CASE feedback.kind = "int" -> [ok |-> TRUE, v |-> feedback.n]
      [] feedback.kind = "float" ->
            [ok |-> TRUE,
             v |-> IF feedback.n >= 0 THEN feedback.n \div 10 ELSE -((-feedback.n) \div 10)]
      [] feedback.kind = "str" -> [ok |-> TRUE, v |-> feedback.n]
      [] OTHER -> [ok |-> FALSE, v |-> 0]

\* the range test with its lower limit off by one
FeedbackInRange_ZeroAllowed(f) == ~(f < 0 \/ f > 5)

\* the range test of give_feedback
FeedbackInRange(f) == ~(f < 1 \/ f > 5)

\* try: f = int(feedback); range test; except Exception
FeedbackAccepted(feedback) ==
    PyInt(feedback).ok /\ FeedbackInRange(PyInt(feedback).v)

----------------------------------------------------------------------------
(* Storage *)

\* get_conn(): one more open connection
connect(n) == n + 1

\* conn.close()
close(n) == n - 1

\* A connection that execute leaves open (its statement raised before
\* conn.close()) is closed only by the interpreter, when the connection object
\* is collected.  That is no sooner than the handler's return, which drops the
\* frame that holds it; the model takes this earliest moment.
finalize(n) == 0

Rows(table) == {table[i] : i \in 1..Len(table)}

Ids(table) == {table[i].id : i \in 1..Len(table)}

\* execute("SELECT * FROM t WHERE id=?", one=True): the row, or None ({})
SelectById(table, id) == {r \in Rows(table) : r.id = id}

\* the email column declared without UNIQUE
EmailTaken_NoUnique(email) == FALSE

\* students.email TEXT NOT NULL UNIQUE
EmailTaken(email) == \E r \in Rows(students) : r.email = email

\* the table declared without UNIQUE(event_id, student_id)
PairTaken_NoUnique(event_id, student_id) == FALSE

\* UNIQUE(event_id, student_id)
PairTaken(event_id, student_id) ==
    \E r \in Rows(registrations) : r.event_id = event_id /\ r.student_id = student_id

\* FOREIGN KEY(event_id) / FOREIGN KEY(student_id): checked only when the
\* connection enforces foreign keys; get_conn never sets the pragma, so the
\* build's default decides
ForeignKeyViolation(event_id, student_id) ==
    foreign_keys /\ (event_id \notin Ids(events) \/ student_id \notin Ids(students))

\* the INSERT checked against the foreign keys only
RegistrationIntegrityError_ForeignKeyOnly(event_id, student_id) ==
    ForeignKeyViolation(event_id, student_id)

\* the INSERT of register_student raises sqlite3.IntegrityError
RegistrationIntegrityError(event_id, student_id) ==
    PairTaken(event_id, student_id) \/ ForeignKeyViolation(event_id, student_id)

\* a row as the INSERT of register_student stores it: the defaults of
\* attendance and feedback, and created_at = CURRENT_TIMESTAMP.  Time is counted
\* in inserts: the clock is read once per insert and never goes back.
NewRegistration(id, event_id, student_id) ==
    [id |-> id, event_id |-> event_id, student_id |-> student_id,
     attendance |-> 0, feedback |-> {}, created_at |-> id]

\* the UPDATE without its WHERE clause
UpdateAttendance_NoWhere(regs, present, reg_id) ==
    [i \in 1..Len(regs) |-> [regs[i] EXCEPT !.attendance = present]]

\* UPDATE registrations SET attendance=attendance+? WHERE id=?
UpdateAttendance_Accumulate(regs, present, reg_id) ==
    [i \in 1..Len(regs) |->
        IF regs[i].id = reg_id THEN [regs[i] EXCEPT !.attendance = @ + present] ELSE regs[i]]

\* UPDATE registrations SET attendance=? WHERE id=?
UpdateAttendance(regs, present, reg_id) ==
    [i \in 1..Len(regs) |->
        IF regs[i].id = reg_id THEN [regs[i] EXCEPT !.attendance = present] ELSE regs[i]]

\* UPDATE registrations SET feedback=?, created_at=CURRENT_TIMESTAMP WHERE id=?
UpdateFeedback_TouchesCreatedAt(regs, f, reg_id) ==
    [i \in 1..Len(regs) |->
        IF regs[i].id = reg_id
        THEN [regs[i] EXCEPT !.feedback = {f}, !.created_at = Len(regs)]
        ELSE regs[i]]

\* UPDATE registrations SET feedback=?, attendance=0 WHERE id=?
UpdateFeedback_ResetsAttendance(regs, f, reg_id) ==
    [i \in 1..Len(regs) |->
        IF regs[i].id = reg_id
        THEN [regs[i] EXCEPT !.feedback = {f}, !.attendance = 0]
        ELSE regs[i]]

\* UPDATE registrations SET feedback=? WHERE id=?
UpdateFeedback(regs, f, reg_id) ==
    [i \in 1..Len(regs) |->
        IF regs[i].id = reg_id THEN [regs[i] EXCEPT !.feedback = {f}] ELSE regs[i]]

----------------------------------------------------------------------------
(* Callers and responses *)

\* a caller's position and the locals its handler still uses
Idle == [pc |-> "idle", op |-> "", new_id |-> 0, reg_id |-> 0, present |-> 0, f |-> 0]

NoData == [none |-> TRUE]

\* a response: the handler that produced it, the request it answers, the
\* HTTP status, the "error" text of the body and the row of the body ({} for null)
NoResponse ==
    [op |-> "", data |-> NoData, status |-> 0, error |-> "", body |-> {}]

Reply(op, data, status, error, body) ==
    [op |-> op, data |-> data, status |-> status, error |-> error, body |-> body]

\* the response of a list or report handler: its body is the sequence rows
ReplyRows(op, data, rows) ==
    [op |-> op, data |-> data, status |-> 200, error |-> "", body |-> {}, rows |-> rows]

Ready(p) == call[p].pc = "idle" /\ response = NoResponse

At(p, op) == call[p].pc = "select" /\ call[p].op = op /\ response = NoResponse

Init ==
    /\ events = <<>>
    /\ students = <<>>
    /\ registrations = <<>>
    /\ sqlite_sequence = [t \in {"events", "students", "registrations"} |-> 0]
    /\ foreign_keys \in BOOLEAN
    /\ open_conns = 0
    /\ call = [p \in Callers |-> Idle]
    /\ response = NoResponse

----------------------------------------------------------------------------
(* POST /api/events *)

create_event(p, data) ==
    /\ Ready(p)
    /\ IF Falsy(data.title) \/ Falsy(data.description) \/ Falsy(data.date)
       THEN /\ response' = Reply("create_event", data, 400,
                                 "Missing fields: title/description/date", {})
            /\ UNCHANGED <<tables, foreign_keys, open_conns, call>>
       ELSE /\ Len(events) < MaxEvents
            /\ events' = Append(events,
                    [id |-> sqlite_sequence["events"] + 1,
                     title |-> data.title,
                     description |-> data.description,
                     date |-> data.date,
                     type |-> GetDefault(data.type, "General"),
                     college_id |-> GetDefault(data.college_id, "C-001")])
            /\ sqlite_sequence' = [sqlite_sequence EXCEPT !["events"] = @ + 1]
            /\ call' = [call EXCEPT ![p] =
                    [Idle EXCEPT !.pc = "select", !.op = "create_event",
                          !.new_id = sqlite_sequence["events"] + 1]]
            /\ open_conns' = close(connect(open_conns))
            /\ UNCHANGED <<students, registrations, foreign_keys, response>>

\* SELECT * FROM events ORDER BY id DESC LIMIT 1
create_event_select_Latest(p) ==
    /\ At(p, "create_event")
    /\ response' = Reply("create_event", NoData, 201, "",
                         {events[i] : i \in {Len(events)}})
    /\ call' = [call EXCEPT ![p] = Idle]
    /\ open_conns' = close(connect(open_conns))
    /\ UNCHANGED <<tables, foreign_keys>>

create_event_select(p) ==
    /\ At(p, "create_event")
    /\ response' = Reply("create_event", NoData, 201, "",
                         SelectById(events, call[p].new_id))
    /\ call' = [call EXCEPT ![p] = Idle]
    /\ open_conns' = close(connect(open_conns))
    /\ UNCHANGED <<tables, foreign_keys>>

----------------------------------------------------------------------------
(* POST /api/students *)

create_student(p, data) ==
    /\ Ready(p)
    /\ IF Falsy(data.name) \/ Falsy(data.email) \/ Falsy(data.college_id)
       THEN /\ response' = Reply("create_student", data, 400,
                                 "Missing fields: name/email/college_id", {})
            /\ UNCHANGED <<tables, foreign_keys, open_conns, call>>
       ELSE IF EmailTaken(data.email)
       THEN /\ response' = Reply("create_student", data, 400,
                                 "Email already exists", {})
            /\ open_conns' = connect(open_conns)
            /\ UNCHANGED <<tables, foreign_keys, call>>
       ELSE /\ Len(students) < MaxStudents
            /\ students' = Append(students,
                    [id |-> sqlite_sequence["students"] + 1,
                     name |-> data.name,
                     email |-> data.email,
                     college_id |-> data.college_id])
            /\ sqlite_sequence' = [sqlite_sequence EXCEPT !["students"] = @ + 1]
            /\ call' = [call EXCEPT ![p] =
                    [Idle EXCEPT !.pc = "select", !.op = "create_student",
                          !.new_id = sqlite_sequence["students"] + 1]]
            /\ open_conns' = close(connect(open_conns))
            /\ UNCHANGED <<events, registrations, foreign_keys, response>>

create_student_select(p) ==
    /\ At(p, "create_student")
    /\ response' = Reply("create_student", NoData, 201, "",
                         SelectById(students, call[p].new_id))
    /\ call' = [call EXCEPT ![p] = Idle]
    /\ open_conns' = close(connect(open_conns))
    /\ UNCHANGED <<tables, foreign_keys>>

----------------------------------------------------------------------------
(* POST /api/register *)

register_student(p, data) ==
    /\ Ready(p)
    /\ IF FalsyId(data.event_id) \/ FalsyId(data.student_id)
       THEN /\ response' = Reply("register_student", data, 400,
                                 "Missing event_id/student_id", {})
            /\ UNCHANGED <<tables, foreign_keys, open_conns, call>>
       ELSE IF RegistrationIntegrityError(data.event_id, data.student_id)
       THEN /\ response' = Reply("register_student", data, 400,
                                 "Student is already registered for this event", {})
            /\ open_conns' = connect(open_conns)
            /\ UNCHANGED <<tables, foreign_keys, call>>
       ELSE /\ Len(registrations) < MaxRegs
            /\ registrations' = Append(registrations,
                    NewRegistration(sqlite_sequence["registrations"] + 1,
                                    data.event_id, data.student_id))
            /\ sqlite_sequence' = [sqlite_sequence EXCEPT !["registrations"] = @ + 1]
            /\ call' = [call EXCEPT ![p] =
                    [Idle EXCEPT !.pc = "select", !.op = "register_student",
                          !.new_id = sqlite_sequence["registrations"] + 1]]
            /\ open_conns' = close(connect(open_conns))
            /\ UNCHANGED <<events, students, foreign_keys, response>>

register_student_select(p) ==
    /\ At(p, "register_student")
    /\ response' = Reply("register_student", NoData, 201, "",
                         SelectById(registrations, call[p].new_id))
    /\ call' = [call EXCEPT ![p] = Idle]
    /\ open_conns' = close(connect(open_conns))
    /\ UNCHANGED <<tables, foreign_keys>>

----------------------------------------------------------------------------
(* POST /api/attendance *)

mark_attendance(p, data) ==
    /\ Ready(p)
    /\ IF FalsyId(data.registration_id)
       THEN /\ response' = Reply("mark_attendance", data, 400,
                                 "Missing registration_id", {})
            /\ UNCHANGED <<tables, foreign_keys, open_conns, call>>
       ELSE /\ registrations' = UpdateAttendance(registrations,
                                    PresentFlag(data.present), data.registration_id)
            /\ call' = [call EXCEPT ![p] =
                    [Idle EXCEPT !.pc = "select", !.op = "mark_attendance",
                          !.reg_id = data.registration_id,
                          !.present = PresentFlag(data.present)]]
            /\ open_conns' = close(connect(open_conns))
            /\ UNCHANGED <<events, students, sqlite_sequence, foreign_keys, response>>

mark_attendance_select(p) ==
    /\ At(p, "mark_attendance")
    /\ response' = Reply("mark_attendance",
                         [registration_id |-> call[p].reg_id, present |-> call[p].present],
                         200, "",
                         SelectById(registrations, call[p].reg_id))
    /\ call' = [call EXCEPT ![p] = Idle]
    /\ open_conns' = close(connect(open_conns))
    /\ UNCHANGED <<tables, foreign_keys>>

----------------------------------------------------------------------------
(* POST /api/feedback *)

\* give_feedback with the range test made after the UPDATE
give_feedback_UpdateBeforeRangeTest(p, data) ==
    /\ Ready(p)
    /\ IF FalsyId(data.registration_id) \/ data.feedback.kind = "none"
       THEN /\ response' = Reply("give_feedback", data, 400,
                                 "Missing registration_id/feedback", {})
            /\ UNCHANGED <<tables, foreign_keys, open_conns, call>>
       ELSE IF ~PyInt(data.feedback).ok
       THEN /\ response' = Reply("give_feedback", data, 400,
                                 "Feedback must be an integer 1-5", {})
            /\ UNCHANGED <<tables, foreign_keys, open_conns, call>>
       ELSE IF ~FeedbackInRange(PyInt(data.feedback).v)
       THEN /\ registrations' = UpdateFeedback(registrations,
                                    PyInt(data.feedback).v, data.registration_id)
            /\ response' = Reply("give_feedback", data, 400,
                                 "Feedback must be an integer 1-5", {})
            /\ open_conns' = close(connect(open_conns))
            /\ UNCHANGED <<events, students, sqlite_sequence, foreign_keys, call>>
       ELSE /\ registrations' = UpdateFeedback(registrations,
                                    PyInt(data.feedback).v, data.registration_id)
            /\ call' = [call EXCEPT ![p] =
                    [Idle EXCEPT !.pc = "select", !.op = "give_feedback",
                          !.reg_id = data.registration_id,
                          !.f = PyInt(data.feedback).v]]
            /\ open_conns' = close(connect(open_conns))
            /\ UNCHANGED <<events, students, sqlite_sequence, foreign_keys, response>>

give_feedback(p, data) ==
    /\ Ready(p)
    /\ IF FalsyId(data.registration_id) \/ data.feedback.kind = "none"
       THEN /\ response' = Reply("give_feedback", data, 400,
                                 "Missing registration_id/feedback", {})
            /\ UNCHANGED <<tables, foreign_keys, open_conns, call>>
       ELSE IF ~FeedbackAccepted(data.feedback)
       THEN /\ response' = Reply("give_feedback", data, 400,
                                 "Feedback must be an integer 1-5", {})
            /\ UNCHANGED <<tables, foreign_keys, open_conns, call>>
       ELSE /\ registrations' = UpdateFeedback(registrations,
                                    PyInt(data.feedback).v, data.registration_id)
            /\ call' = [call EXCEPT ![p] =
                    [Idle EXCEPT !.pc = "select", !.op = "give_feedback",
                          !.reg_id = data.registration_id,
                          !.f = PyInt(data.feedback).v]]
            /\ open_conns' = close(connect(open_conns))
            /\ UNCHANGED <<events, students, sqlite_sequence, foreign_keys, response>>

give_feedback_select(p) ==
    /\ At(p, "give_feedback")
    /\ response' = Reply("give_feedback",
                         [registration_id |-> call[p].reg_id, feedback |-> call[p].f],
                         200, "",
                         SelectById(registrations, call[p].reg_id))
    /\ call' = [call EXCEPT ![p] = Idle]
    /\ open_conns' = close(connect(open_conns))
    /\ UNCHANGED <<tables, foreign_keys>>

----------------------------------------------------------------------------
(* SQL of the read handlers *)

\* the texts of the model in ascending order of SQLite's BINARY collation
TextOrder ==
    << "2024-03-01", "AI Talk", "Asha", "Bela", "C-001", "General", "Hack Day",
       "a@x.edu", "b@x.edu", "c@x.edu" >>

Rank(text) == CHOOSE i \in 1..Len(TextOrder) : TextOrder[i] = text

\* ORDER BY: every order of the rows in which no row stands before a row that
\* the relation before (a set of pairs) puts first; rows that it does not
\* separate come in any order
OrderBy(rows, before) ==
    {s \in [1..Cardinality(rows) -> rows] :
        /\ \A i, j \in 1..Cardinality(rows) : i # j => s[i] # s[j]
        /\ \A i, j \in 1..Cardinality(rows) : i < j => <<s[j], s[i]>> \notin before}

\* the pairs of rows
Pairs(rows) == rows \X rows

\* SUM(column) over a set of rows, for a set that is not empty
RECURSIVE SumOf(_, _)
SumOf(rows, column) ==
    IF rows = {} THEN 0
    ELSE LET r == CHOOSE x \in rows : TRUE
         IN r[column] + SumOf(rows \ {r}, column)

\* num*1.0/den cut off after two decimals, in hundredths
Round2_Truncate(num, den) == (100 * num) \div den

\* ROUND(num*1.0/den, 2), in hundredths
Round2(num, den) == (200 * num + den) \div (2 * den)

\* LEFT JOIN registrations r ON r.event_id = e.id
RegistrationsOfEvent(e) == {r \in Rows(registrations) : r.event_id = e.id}

\* LEFT JOIN registrations r ON r.student_id = s.id
RegistrationsOfStudent(st) == {r \in Rows(registrations) : r.student_id = st.id}

\* the feedback column as a number, NULL taken as 0
WithFeedback_NullAsZero(rows) ==
    {[id |-> r.id, feedback |-> IF r.feedback = {} THEN 0 ELSE CHOOSE f \in r.feedback : TRUE] :
        r \in rows}

\* the feedback column as a number, for rows whose feedback is not NULL
WithFeedback(rows) ==
    {[id |-> r.id, feedback |-> CHOOSE f \in r.feedback : TRUE] :
        r \in {x \in rows : x.feedback # {}}}

\* SELECT ... COUNT(r.id) AS registrations ... GROUP BY e.id
RegistrationCountRows ==
    {[id |-> e.id, title |-> e.title, type |-> e.type, college_id |-> e.college_id,
      registrations |-> Cardinality(RegistrationsOfEvent(e))] : e \in Rows(events)}

\* ORDER BY e.title ASC
RegistrationCountBefore_TitleOnly(a, b) == Rank(a.title) < Rank(b.title)

\* ORDER BY registrations DESC, e.title ASC
RegistrationCountBefore(a, b) ==
    \/ a.registrations > b.registrations
    \/ a.registrations = b.registrations /\ Rank(a.title) < Rank(b.title)

\* SELECT ... COUNT(r.id) AS total, COALESCE(SUM(r.attendance),0) AS attended,
\* CASE WHEN COUNT(r.id)=0 THEN 0.0 ELSE ROUND(SUM*100.0/COUNT, 2) END
\* (attendance_pct in hundredths of a percent point)
AttendanceRows ==
    {[id |-> e.id, title |-> e.title,
      total |-> Cardinality(RegistrationsOfEvent(e)),
      attended |-> SumOf(RegistrationsOfEvent(e), "attendance"),
      attendance_pct |->
        IF Cardinality(RegistrationsOfEvent(e)) = 0 THEN 0
        ELSE Round2(SumOf(RegistrationsOfEvent(e), "attendance") * 100,
                    Cardinality(RegistrationsOfEvent(e)))] : e \in Rows(events)}

\* ORDER BY attendance_pct DESC, e.title ASC
AttendanceBefore(a, b) ==
    \/ a.attendance_pct > b.attendance_pct
    \/ a.attendance_pct = b.attendance_pct /\ Rank(a.title) < Rank(b.title)

\* SELECT ... ROUND(AVG(r.feedback), 2) ... LEFT JOIN ... AND r.feedback IS NOT
\* NULL GROUP BY e.id HAVING COUNT(r.feedback) > 0 (avg_feedback in hundredths)
FeedbackRows ==
    {[id |-> e.id, title |-> e.title,
      avg_feedback |-> Round2(SumOf(WithFeedback(RegistrationsOfEvent(e)), "feedback"),
                              Cardinality(WithFeedback(RegistrationsOfEvent(e))))] :
        e \in {x \in Rows(events) :
                Cardinality(WithFeedback(RegistrationsOfEvent(x))) > 0}}

\* ORDER BY avg_feedback DESC, e.title ASC
FeedbackBefore(a, b) ==
    \/ a.avg_feedback > b.avg_feedback
    \/ a.avg_feedback = b.avg_feedback /\ Rank(a.title) < Rank(b.title)

\* SELECT ... SUM(r.attendance) AS events_attended, COUNT(r.id) AS registrations
\* ... GROUP BY s.id; SUM over no row is NULL ({})
TopStudentRows ==
    {[id |-> st.id, name |-> st.name, email |-> st.email, college_id |-> st.college_id,
      events_attended |->
        IF RegistrationsOfStudent(st) = {} THEN {}
        ELSE {SumOf(RegistrationsOfStudent(st), "attendance")},
      registrations |-> Cardinality(RegistrationsOfStudent(st))] : st \in Rows(students)}

\* the place of a nullable number in an ascending ORDER BY: NULL is smallest
NullsFirst(x) == IF x = {} THEN -1 ELSE CHOOSE v \in x : TRUE

\* ORDER BY s.name ASC
TopStudentBefore_NameOnly(a, b) == Rank(a.name) < Rank(b.name)

\* ORDER BY events_attended DESC, registrations DESC, s.name ASC
TopStudentBefore(a, b) ==
    \/ NullsFirst(a.events_attended) > NullsFirst(b.events_attended)
    \/ /\ NullsFirst(a.events_attended) = NullsFirst(b.events_attended)
       /\ \/ a.registrations > b.registrations
          \/ a.registrations = b.registrations /\ Rank(a.name) < Rank(b.name)

\* LIMIT n: a negative n is no limit
Limit(rows, n) ==
    IF n < 0 \/ n >= Len(rows) THEN rows ELSE SubSeq(rows, 1, n)

----------------------------------------------------------------------------
(* GET /api/events, /api/students, /api/registrations *)

\* WHERE 1=1 [AND type = ?] [AND college_id = ?]
EventListRows(q) ==
    {e \in Rows(events) :
        /\ Falsy(q.type) \/ e.type = q.type
        /\ Falsy(q.college_id) \/ e.college_id = q.college_id}

\* ORDER BY date ASC, id ASC
EventListBefore(a, b) ==
    \/ Rank(a.date) < Rank(b.date)
    \/ a.date = b.date /\ a.id < b.id

list_events(p, q) ==
    /\ Ready(p)
    /\ \E rows \in OrderBy(EventListRows(q),
                {x \in Pairs(EventListRows(q)) : EventListBefore(x[1], x[2])}) :
        response' = ReplyRows("list_events", q, rows)
    /\ open_conns' = close(connect(open_conns))
    /\ UNCHANGED <<tables, foreign_keys, call>>

\* [WHERE college_id = ?]
StudentListRows(q_college) ==
    {st \in Rows(students) : Falsy(q_college) \/ st.college_id = q_college}

\* ORDER BY id DESC
StudentListBefore(a, b) == a.id > b.id

list_students(p, q_college) ==
    /\ Ready(p)
    /\ \E rows \in OrderBy(StudentListRows(q_college),
                {x \in Pairs(StudentListRows(q_college)) : StudentListBefore(x[1], x[2])}) :
        response' = ReplyRows("list_students", [college_id |-> q_college], rows)
    /\ open_conns' = close(connect(open_conns))
    /\ UNCHANGED <<tables, foreign_keys, call>>

\* SELECT r.*, e.title AS event_title, s.name AS student_name FROM registrations r
\* JOIN events e ON e.id = r.event_id JOIN students s ON s.id = r.student_id
\* WHERE 1=1 [AND r.event_id = ?] [AND r.student_id = ?]
RegistrationListRows(q) ==
    {[id |-> r.id, event_id |-> r.event_id, student_id |-> r.student_id,
      attendance |-> r.attendance, feedback |-> r.feedback, created_at |-> r.created_at,
      event_title |-> e.title, student_name |-> st.name] :
        <<r, e, st>> \in
            {x \in Rows(registrations) \X Rows(events) \X Rows(students) :
                /\ x[2].id = x[1].event_id
                /\ x[3].id = x[1].student_id
                /\ FalsyId(q.event_id) \/ x[1].event_id = q.event_id
                /\ FalsyId(q.student_id) \/ x[1].student_id = q.student_id}}

\* ORDER BY r.created_at DESC
RegistrationListBefore(a, b) == a.created_at > b.created_at

list_registrations(p, q) ==
    /\ Ready(p)
    /\ \E rows \in OrderBy(RegistrationListRows(q),
                {x \in Pairs(RegistrationListRows(q)) : RegistrationListBefore(x[1], x[2])}) :
        response' = ReplyRows("list_registrations", q, rows)
    /\ open_conns' = close(connect(open_conns))
    /\ UNCHANGED <<tables, foreign_keys, call>>

----------------------------------------------------------------------------
(* GET /api/reports/... *)

report_registrations(p) ==
    /\ Ready(p)
    /\ \E rows \in OrderBy(RegistrationCountRows,
                {x \in Pairs(RegistrationCountRows) : RegistrationCountBefore(x[1], x[2])}) :
        response' = ReplyRows("report_registrations", NoData, rows)
    /\ open_conns' = close(connect(open_conns))
    /\ UNCHANGED <<tables, foreign_keys, call>>

report_attendance(p) ==
    /\ Ready(p)
    /\ \E rows \in OrderBy(AttendanceRows,
                {x \in Pairs(AttendanceRows) : AttendanceBefore(x[1], x[2])}) :
        response' = ReplyRows("report_attendance", NoData, rows)
    /\ open_conns' = close(connect(open_conns))
    /\ UNCHANGED <<tables, foreign_keys, call>>

report_feedback(p) ==
    /\ Ready(p)
    /\ \E rows \in OrderBy(FeedbackRows,
                {x \in Pairs(FeedbackRows) : FeedbackBefore(x[1], x[2])}) :
        response' = ReplyRows("report_feedback", NoData, rows)
    /\ open_conns' = close(connect(open_conns))
    /\ UNCHANGED <<tables, foreign_keys, call>>

\* request.args.get("limit", 3), as the value int() is applied to
LimitArg(limit) ==
    IF limit.kind = "none" THEN [kind |-> "int", n |-> DefaultLimit] ELSE limit

\* int() raises ValueError on a string that is no number; no handler catches
\* it, and Flask answers 500 Internal Server Error
report_top_students(p, limit) ==
    /\ Ready(p)
    /\ IF ~PyInt(LimitArg(limit)).ok
       THEN /\ response' = Reply("report_top_students", [limit |-> limit], 500,
                                 "Internal Server Error", {})
            /\ UNCHANGED open_conns
       ELSE /\ \E rows \in OrderBy(TopStudentRows,
                {x \in Pairs(TopStudentRows) : TopStudentBefore(x[1], x[2])}) :
                response' = ReplyRows("report_top_students", [limit |-> limit],
                                      Limit(rows, PyInt(LimitArg(limit)).v))
            /\ open_conns' = close(connect(open_conns))
    /\ UNCHANGED <<tables, foreign_keys, call>>

----------------------------------------------------------------------------
\* the handler returns (return jsonify(...)): the response leaves the server,
\* and the frames of the handler and of a raised exception are dropped
send_response ==
    /\ response # NoResponse
    /\ response' = NoResponse
    /\ open_conns' = finalize(open_conns)
    /\ UNCHANGED <<tables, foreign_keys, call>>

Next ==
    \/ \E p \in Callers, data \in EventInputs : create_event(p, data)
    \/ \E p \in Callers : create_event_select(p)
    \/ \E p \in Callers, data \in StudentInputs : create_student(p, data)
    \/ \E p \in Callers : create_student_select(p)
    \/ \E p \in Callers, data \in RegisterInputs : register_student(p, data)
    \/ \E p \in Callers : register_student_select(p)
    \/ \E p \in Callers, data \in AttendanceInputs : mark_attendance(p, data)
    \/ \E p \in Callers : mark_attendance_select(p)
    \/ \E p \in Callers, data \in FeedbackCallInputs : give_feedback(p, data)
    \/ \E p \in Callers : give_feedback_select(p)
    \/ send_response

Spec == Init /\ [][Next]_vars

----------------------------------------------------------------------------
(* One caller at a time: every handler, the reads included *)

SequentialCaller == "c1"

NextSequential ==
    \/ \E data \in EventInputs : create_event(SequentialCaller, data)
    \/ create_event_select(SequentialCaller)
    \/ \E data \in StudentInputs : create_student(SequentialCaller, data)
    \/ create_student_select(SequentialCaller)
    \/ \E data \in RegisterInputs : register_student(SequentialCaller, data)
    \/ register_student_select(SequentialCaller)
    \/ \E data \in AttendanceInputs : mark_attendance(SequentialCaller, data)
    \/ mark_attendance_select(SequentialCaller)
    \/ \E data \in FeedbackCallInputs : give_feedback(SequentialCaller, data)
    \/ give_feedback_select(SequentialCaller)
    \/ \E q \in ListEventInputs : list_events(SequentialCaller, q)
    \/ \E q_college \in ListStudentInputs : list_students(SequentialCaller, q_college)
    \/ \E q \in ListRegistrationInputs : list_registrations(SequentialCaller, q)
    \/ report_registrations(SequentialCaller)
    \/ report_attendance(SequentialCaller)
    \/ report_feedback(SequentialCaller)
    \/ \E limit \in LimitInputs : report_top_students(SequentialCaller, limit)
    \/ send_response

SpecSequential == Init /\ [][NextSequential]_vars

----------------------------------------------------------------------------
(* The reports over stores the write handlers can have produced *)

\* rows as create_event and create_student store them
EventRow(id, title) ==
    [id |-> id, title |-> title, description |-> "24h build", date |-> "2024-03-01",
     type |-> "General", college_id |-> "C-001"]

StudentRow(id, name, email) ==
    [id |-> id, name |-> name, email |-> email, college_id |-> "C-001"]

\* events and students of the stores: none; titles and names in another order
\* than the ids; equal titles and equal names
ReportCatalogs ==
    { << <<>>, <<>> >>,
      << <<EventRow(1, "Hack Day")>>, <<>> >>,
      << <<>>, <<StudentRow(1, "Bela", "a@x.edu")>> >>,
      << <<EventRow(1, "Hack Day"), EventRow(2, "AI Talk")>>,
         <<StudentRow(1, "Bela", "a@x.edu"), StudentRow(2, "Asha", "b@x.edu"),
           StudentRow(3, "Asha", "c@x.edu")>> >>,
      << <<EventRow(1, "AI Talk"), EventRow(2, "AI Talk")>>,
         <<StudentRow(1, "Asha", "a@x.edu"), StudentRow(2, "Bela", "b@x.edu")>> >> }

\* feedback as give_feedback stores it, or NULL
ReportFeedbacks == {{}, {4}, {5}}

PairBefore(a, b) == a[1] < b[1] \/ (a[1] = b[1] /\ a[2] < b[2])

\* every store with at most MaxReportRegs registrations of distinct pairs of a
\* stored event and a stored student, with any attendance and feedback
InitReports ==
    /\ \E catalog \in ReportCatalogs :
        /\ events = catalog[1]
        /\ students = catalog[2]
    /\ \E pairs \in {x \in SUBSET (Ids(events) \X Ids(students)) :
                        Cardinality(x) <= MaxReportRegs} :
        \E s \in OrderBy(pairs,
                {x \in Pairs(pairs) : PairBefore(x[1], x[2])}),
           attendance \in [1..Cardinality(pairs) -> {0, 1}],
           feedback \in [1..Cardinality(pairs) -> ReportFeedbacks] :
            registrations =
                [i \in 1..Cardinality(pairs) |->
                    [NewRegistration(i, s[i][1], s[i][2])
                        EXCEPT !.attendance = attendance[i], !.feedback = feedback[i]]]
    /\ sqlite_sequence =
        [t \in {"events", "students", "registrations"} |->
            CASE t = "events" -> Len(events)
              [] t = "students" -> Len(students)
              [] OTHER -> Len(registrations)]
    /\ foreign_keys = FALSE
    /\ open_conns = 0
    /\ call = [p \in Callers |-> Idle]
    /\ response = NoResponse

NextReports ==
    \/ report_registrations(SequentialCaller)
    \/ report_attendance(SequentialCaller)
    \/ report_feedback(SequentialCaller)
    \/ \E limit \in LimitInputs : report_top_students(SequentialCaller, limit)
    \/ send_response

SpecReports == InitReports /\ [][NextReports]_vars

----------------------------------------------------------------------------
(* Vocabulary of the properties *)

\* the spec's error kinds, by the text the handlers send with status 400
ValidationMessages ==
    { "Missing fields: title/description/date",
      "Missing fields: name/email/college_id",
      "Missing event_id/student_id",
      "Missing registration_id",
      "Missing registration_id/feedback",
      "Feedback must be an integer 1-5" }

DuplicateMessages ==
    { "Email already exists", "Student is already registered for this event" }

IsValidationError(r) == r.status = 400 /\ r.error \in ValidationMessages

IsDuplicateError(r) == r.status = 400 /\ r.error \in DuplicateMessages

\* this step is a call of handler op that returns from its first statement or
\* before it (a rejected request); response'.data is the request
Rejected(op) ==
    /\ response = NoResponse
    /\ response' # NoResponse
    /\ response'.op = op
    /\ call' = call

\* this step is caller p's first statement of handler op (the write)
Began(p, op) ==
    /\ call[p].pc = "idle"
    /\ call'[p].pc = "select"
    /\ call'[p].op = op

\* this step is caller p's last statement of handler op (the read of the result)
Finished(p, op) ==
    /\ call[p].pc = "select"
    /\ call[p].op = op
    /\ call'[p].pc = "idle"

\* the rows of registrations stored for a pair
RowsOfPair(event_id, student_id) ==
    {i \in 1..Len(registrations) :
        registrations[i].event_id = event_id /\ registrations[i].student_id = student_id}

\* the pair of the registration caller q's register call has inserted
InFlightPair(q) ==
    {<<r.event_id, r.student_id>> : r \in SelectById(registrations, call[q].new_id)}

\* the rows of students stored with an email
RowsOfEmail(email) == {i \in 1..Len(students) : students[i].email = email}

\* the row of regs with an id ({} if none)
RowOf(regs, reg_id) == {regs[i] : i \in {j \in 1..Len(regs) : regs[j].id = reg_id}}

\* row2 is row except, possibly, for one field
SameBut(row, row2, field) ==
    \A k \in {"id", "event_id", "student_id", "attendance", "feedback", "created_at"}
            \ {field} :
        row2[k] = row[k]

\* the step appends exactly one row to the table
Appended(table, table2) == Len(table2) = Len(table) + 1 /\ SubSeq(table2, 1, Len(table)) = table

----------------------------------------------------------------------------
(* C1: there is never more than one registration for an (event_id,         *)
(* student_id) pair: a register call for a pair that is already registered  *)
(* is answered with the duplicate error and leaves every table as it was,   *)
(* and a register call that does insert inserts a pair that was not there.  *)
C1_OneRegistrationPerPair ==
    /\ [](\A i, j \in 1..Len(registrations) :
            (registrations[i].event_id = registrations[j].event_id
                /\ registrations[i].student_id = registrations[j].student_id) => i = j)
    /\ [][/\ (Rejected("register_student")
                /\ response'.data.event_id # 0 /\ response'.data.student_id # 0
                /\ RowsOfPair(response'.data.event_id, response'.data.student_id) # {})
              => (/\ IsDuplicateError(response')
                  /\ response'.error = "Student is already registered for this event"
                  /\ UNCHANGED tables)
           /\ \A p \in Callers : Began(p, "register_student")
              => (/\ Appended(registrations, registrations')
                  /\ LET new == registrations'[Len(registrations')]
                     IN RowsOfPair(new.event_id, new.student_id) = {})
          ]_vars

\* a second register call for a stored pair has just been refused, and the pair
\* has exactly one row
C1_Witness ==
    /\ response.op = "register_student"
    /\ IsDuplicateError(response)
    /\ Cardinality(RowsOfPair(response.data.event_id, response.data.student_id)) = 1

----------------------------------------------------------------------------
(* C2: while one caller's register call for a pair is in flight (its INSERT *)
(* done, its result not yet read), every other register call for the same   *)
(* pair is answered with the duplicate error and writes nothing, no second  *)
(* row for the pair appears, and the call in flight ends with status 201    *)
(* and a row of that pair: one success, one duplicate error, nothing else.  *)
C2_ConcurrentRegister ==
    [][\A q \in Callers :
        (call[q].pc = "select" /\ call[q].op = "register_student") =>
            /\ Cardinality(InFlightPair(q)) = 1
            /\ (Rejected("register_student")
                    /\ <<response'.data.event_id, response'.data.student_id>> \in InFlightPair(q))
               => (/\ response'.status = 400
                   /\ response'.error = "Student is already registered for this event"
                   /\ UNCHANGED tables)
            /\ \A p \in Callers \ {q} : Began(p, "register_student")
               => LET new == registrations'[Len(registrations')]
                  IN <<new.event_id, new.student_id>> \notin InFlightPair(q)
            /\ Finished(q, "register_student")
               => (/\ response'.status = 201
                   /\ response'.error = ""
                   /\ Cardinality(response'.body) = 1
                   /\ \A r \in response'.body :
                        /\ r.id = call[q].new_id
                        /\ <<r.event_id, r.student_id>> \in InFlightPair(q)
                   /\ UNCHANGED tables)
      ]_vars

\* one caller's register call is in flight and another call for the same pair
\* has just been refused as a duplicate
C2_Witness ==
    /\ response.op = "register_student"
    /\ IsDuplicateError(response)
    /\ \E q \in Callers :
        /\ call[q].pc = "select"
        /\ call[q].op = "register_student"
        /\ <<response.data.event_id, response.data.student_id>> \in InFlightPair(q)
        /\ Cardinality(RowsOfPair(response.data.event_id, response.data.student_id)) = 1

----------------------------------------------------------------------------
(* C3: every registration refers to an existing event and an existing       *)
(* student: register with an id of no stored event or student creates no    *)
(* row.                                                                     *)
C3_NoOrphanRegistration ==
    \A i \in 1..Len(registrations) :
        /\ registrations[i].event_id \in Ids(events)
        /\ registrations[i].student_id \in Ids(students)

----------------------------------------------------------------------------
(* C4: no two students share an email: createStudent with the email of a    *)
(* stored student fails and leaves every table as it was, with the          *)
(* duplicate error when the request has its name and college_id (a request  *)
(* without them is refused by validation first), and a createStudent that   *)
(* does insert inserts an email no stored student had.                      *)
C4_UniqueEmail ==
    /\ [](\A i, j \in 1..Len(students) : students[i].email = students[j].email => i = j)
    /\ [][/\ (Rejected("create_student") /\ RowsOfEmail(response'.data.email) # {})
              => (/\ response'.status = 400
                  /\ UNCHANGED tables
                  /\ (response'.data.name \notin {ABSENT, ""}
                        /\ response'.data.college_id \notin {ABSENT, ""})
                     => (/\ IsDuplicateError(response')
                         /\ response'.error = "Email already exists"))
           /\ \A p \in Callers : Began(p, "create_student")
              => (/\ Appended(students, students')
                  /\ RowsOfEmail(students'[Len(students')].email) = {})
          ]_vars

\* a second createStudent with a stored email has just been refused, and the
\* email has exactly one row
C4_Witness ==
    /\ response.op = "create_student"
    /\ IsDuplicateError(response)
    /\ Cardinality(RowsOfEmail(response.data.email)) = 1

----------------------------------------------------------------------------
(* C5: a call that ends in a validation error leaves the three tables as    *)
(* they were, and no write is made for a request with a missing or empty    *)
(* required field or a feedback outside 1..5: every row a handler inserts   *)
(* has its required fields, and every update a handler makes addresses a    *)
(* given registration id with an accepted value.                           *)
C5_ValidationBeforeWrite ==
    [][/\ (response = NoResponse /\ IsValidationError(response')) => UNCHANGED tables
       /\ \A op \in {"create_event", "create_student", "register_student",
                     "mark_attendance", "give_feedback"} :
            (Rejected(op) /\ IsValidationError(response')) => UNCHANGED tables
       /\ (Rejected("create_event")
            /\ (\E k \in {"title", "description", "date"} : response'.data[k] \in {ABSENT, ""}))
          => response'.error = "Missing fields: title/description/date"
       /\ (Rejected("create_student")
            /\ (\E k \in {"name", "email", "college_id"} : response'.data[k] \in {ABSENT, ""}))
          => response'.error = "Missing fields: name/email/college_id"
       /\ \A p \in Callers :
            /\ Began(p, "create_event")
               => LET new == events'[Len(events')]
                  IN \A k \in {"title", "description", "date"} : new[k] \notin {ABSENT, ""}
            /\ Began(p, "create_student")
               => LET new == students'[Len(students')]
                  IN \A k \in {"name", "email", "college_id"} : new[k] \notin {ABSENT, ""}
            /\ Began(p, "register_student")
               => LET new == registrations'[Len(registrations')]
                  IN new.event_id # 0 /\ new.student_id # 0
            /\ Began(p, "mark_attendance") => call'[p].reg_id # 0
            /\ Began(p, "give_feedback") => call'[p].reg_id # 0 /\ call'[p].f \in 1..5
            /\ (call'[p] # call[p] /\ ~(\E op \in {"create_event", "create_student",
                    "register_student", "mark_attendance", "give_feedback"} : Began(p, op)))
               => UNCHANGED tables
      ]_vars

\* a feedback outside 1..5 for a stored registration has just been refused
C5_Witness ==
    /\ response.op = "give_feedback"
    /\ IsValidationError(response)
    /\ response.data.registration_id \in Ids(registrations)
    /\ response.data.feedback = [kind |-> "int", n |-> 6]

----------------------------------------------------------------------------
(* C6: markAttendance and recordFeedback for a registration id that no      *)
(* stored registration has change no table, and their read of the result    *)
(* finds no row: the answer has status 200, no error and a null body.       *)
C6_MissingIdIsNoOp ==
    [][\A p \in Callers : \A op \in {"mark_attendance", "give_feedback"} :
        /\ (Began(p, op) /\ call'[p].reg_id \notin Ids(registrations))
           => UNCHANGED tables
        /\ (Finished(p, op) /\ call[p].reg_id \notin Ids(registrations))
           => (/\ response'.status = 200
               /\ response'.error = ""
               /\ response'.body = {}
               /\ UNCHANGED tables)
      ]_vars

\* an update for an id that is not stored has just been answered with null,
\* while other registrations are stored
C6_Witness ==
    /\ response.op \in {"mark_attendance", "give_feedback"}
    /\ response.status = 200
    /\ response.body = {}
    /\ response.data.registration_id \notin Ids(registrations)
    /\ registrations # <<>>

----------------------------------------------------------------------------
(* C7: markAttendance writes only the attendance of the registration it     *)
(* addresses and recordFeedback only its feedback, every other field, row   *)
(* and table staying as it was; so each update of a registration followed   *)
(* by the other one gives the table the opposite order gives, with          *)
(* attendance = p and feedback = f.                                         *)
C7_AttendanceFeedbackIndependent ==
    [][\A p \in Callers :
        /\ Began(p, "mark_attendance") =>
            /\ UNCHANGED <<events, students, sqlite_sequence>>
            /\ Len(registrations') = Len(registrations)
            /\ \A i \in 1..Len(registrations) :
                IF registrations[i].id = call'[p].reg_id
                THEN /\ SameBut(registrations[i], registrations'[i], "attendance")
                     /\ registrations'[i].attendance = call'[p].present
                ELSE registrations'[i] = registrations[i]
            \* this update, then any feedback = that feedback, then this update
            /\ \A f \in 1..5 :
                LET r == call'[p].reg_id
                    af == UpdateFeedback(registrations', f, r)
                    fa == UpdateAttendance(UpdateFeedback(registrations, f, r),
                                           call'[p].present, r)
                IN /\ af = fa
                   /\ \A row \in RowOf(af, r) :
                        row.attendance = call'[p].present /\ row.feedback = {f}
        /\ Began(p, "give_feedback") =>
            /\ UNCHANGED <<events, students, sqlite_sequence>>
            /\ Len(registrations') = Len(registrations)
            /\ \A i \in 1..Len(registrations) :
                IF registrations[i].id = call'[p].reg_id
                THEN /\ SameBut(registrations[i], registrations'[i], "feedback")
                     /\ registrations'[i].feedback = {call'[p].f}
                ELSE registrations'[i] = registrations[i]
            \* this update, then any attendance = that attendance, then this update
            /\ \A present \in {0, 1} :
                LET r == call'[p].reg_id
                    fa == UpdateAttendance(registrations', present, r)
                    af == UpdateFeedback(UpdateAttendance(registrations, present, r),
                                         call'[p].f, r)
                IN /\ fa = af
                   /\ \A row \in RowOf(fa, r) :
                        row.attendance = present /\ row.feedback = {call'[p].f}
      ]_vars

\* a registration has been marked attended and given feedback 5, the result
\* of the later call shows both, and another registration is untouched
C7_Witness ==
    /\ response.op \in {"mark_attendance", "give_feedback"}
    /\ \E row \in response.body : row.attendance = 1 /\ row.feedback = {5}
    /\ \E i \in 1..Len(registrations) :
        /\ registrations[i].id # response.data.registration_id
        /\ registrations[i].attendance = 0
        /\ registrations[i].feedback = {}

----------------------------------------------------------------------------
(* C8: markAttendance and recordFeedback are idempotent: an update with the *)
(* value the registration already holds changes no table, the call's read   *)
(* of an existing registration returns its row with status 200 and no       *)
(* error, and applying an update a second time gives the table that         *)
(* applying it once gave.                                                   *)
C8_UpdatesIdempotent ==
    [][\A p \in Callers :
        /\ Began(p, "mark_attendance") =>
            \* the same update once more gives the table this one gave
            /\ UpdateAttendance(registrations', call'[p].present, call'[p].reg_id)
                    = registrations'
            /\ (\E row \in RowOf(registrations, call'[p].reg_id) :
                    row.attendance = call'[p].present)
               => UNCHANGED tables
        /\ Began(p, "give_feedback") =>
            /\ UpdateFeedback(registrations', call'[p].f, call'[p].reg_id)
                    = registrations'
            /\ (\E row \in RowOf(registrations, call'[p].reg_id) :
                    row.feedback = {call'[p].f})
               => UNCHANGED tables
        /\ \A op \in {"mark_attendance", "give_feedback"} :
            (Finished(p, op) /\ call[p].reg_id \in Ids(registrations))
            => (/\ response'.status = 200
                /\ response'.error = ""
                /\ response'.body = RowOf(registrations, call[p].reg_id)
                /\ Cardinality(response'.body) = 1
                /\ UNCHANGED tables)
      ]_vars

\* two calls have written the same attendance to the same registration (the
\* later write re-set the value the row held) and one of them has returned
\* the row
C8_Witness ==
    /\ response.op = "mark_attendance"
    /\ response.status = 200
    /\ \E row \in response.body : row.attendance = 1 /\ response.data.present = 1
    /\ \E q \in Callers :
        /\ call[q].pc = "select"
        /\ call[q].op = "mark_attendance"
        /\ call[q].reg_id = response.data.registration_id
        /\ call[q].present = 1

----------------------------------------------------------------------------
(* C9: every registration's attendance is 0 or 1 and its feedback is absent *)
(* or an integer in 1..5: register inserts attendance 0 and no feedback,    *)
(* and recordFeedback writes int(feedback) when that conversion succeeds    *)
(* with a result in 1..5 and otherwise answers with a validation error and  *)
(* writes nothing.                                                          *)
C9_FeedbackAndAttendanceRange ==
    /\ [](\A i \in 1..Len(registrations) :
            /\ registrations[i].attendance \in {0, 1}
            /\ registrations[i].feedback \in {{}} \cup {{f} : f \in 1..5})
    /\ [][/\ \A p \in Callers :
                /\ Began(p, "register_student")
                   => LET new == registrations'[Len(registrations')]
                      IN new.attendance = 0 /\ new.feedback = {}
                /\ Began(p, "give_feedback")
                   => /\ call'[p].f \in 1..5
                      /\ \A row \in RowOf(registrations', call'[p].reg_id) :
                            row.feedback = {call'[p].f}
           /\ (Rejected("give_feedback")
                /\ response'.data.registration_id # 0
                /\ response'.data.feedback.kind # "none")
              => (/\ IsValidationError(response')
                  /\ UNCHANGED tables
                  /\ ~(PyInt(response'.data.feedback).ok
                        /\ PyInt(response'.data.feedback).v \in 1..5))
          ]_vars

\* a recordFeedback call has stored feedback 5 and returned the row
C9_Witness ==
    /\ response.op = "give_feedback"
    /\ response.status = 200
    /\ \E row \in response.body : row.feedback = {5} /\ row.attendance \in {0, 1}

----------------------------------------------------------------------------
(* C10: the row a markAttendance call returns has the attendance that call  *)
(* wrote, and the row a recordFeedback call returns has the feedback that   *)
(* call wrote, whatever other calls run at the same time.                   *)
C10_ReturnsOwnWrite ==
    /\ (response.op = "mark_attendance" /\ response.status = 200)
       => \A row \in response.body : row.attendance = response.data.present
    /\ (response.op = "give_feedback" /\ response.status = 200)
       => \A row \in response.body : row.feedback = {response.data.feedback}

----------------------------------------------------------------------------
(* Vocabulary of the report properties *)

\* the stored registrations of an event, of a student
RegsOfEvent(event_id) ==
    {i \in 1..Len(registrations) : registrations[i].event_id = event_id}

RegsOfStudent(student_id) ==
    {i \in 1..Len(registrations) : registrations[i].student_id = student_id}

\* those of a set of registrations marked attended, those with feedback
Attended(regs) == {i \in regs : registrations[i].attendance = 1}

FeedbackBearing(regs) == {i \in regs : registrations[i].feedback # {}}

\* the sum of the feedback of a set of feedback-bearing registrations
RECURSIVE FeedbackSum(_)
FeedbackSum(regs) ==
    IF regs = {} THEN 0
    ELSE LET i == CHOOSE x \in regs : TRUE
         IN (CHOOSE f \in registrations[i].feedback : TRUE) + FeedbackSum(regs \ {i})

HasFeedback(event) == FeedbackBearing(RegsOfEvent(event.id)) # {}

\* rows has exactly one row for each of the ids, and no other row
OneRowEach(rows, ids) ==
    /\ \A id \in ids : Cardinality({k \in 1..Len(rows) : rows[k].id = id}) = 1
    /\ \A k \in 1..Len(rows) : rows[k].id \in ids

\* hundredths h is num/den rounded to two decimals
IsRounded(h, num, den) ==
    /\ 2 * (h * den - 100 * num) <= den
    /\ 2 * (100 * num - h * den) <= den

\* the integer a limit parameter stands for
LimitOf(r) == PyInt(LimitArg(r.data.limit)).v

\* the limit parameter of the request is no integer
MalformedLimit(r) == ~PyInt(LimitArg(r.data.limit)).ok

\* eventsAttended as the specification defines it: 0 for no registrations
EventsAttendedOf(row) == IF row.events_attended = {} THEN 0 ELSE NullsFirst(row.events_attended)

\* row a stands before row b in the specified order of topStudents
RankedBefore(a, b) ==
    \/ EventsAttendedOf(a) > EventsAttendedOf(b)
    \/ /\ EventsAttendedOf(a) = EventsAttendedOf(b)
       /\ \/ a.registrations > b.registrations
          \/ a.registrations = b.registrations /\ Rank(a.name) < Rank(b.name)

\* the handlers of the GET routes
ReadOps ==
    { "list_events", "list_students", "list_registrations", "report_registrations",
      "report_attendance", "report_feedback", "report_top_students" }

\* a response of the handler op that carries rows
Answered(op) == response.op = op /\ response.status = 200

----------------------------------------------------------------------------
\* the store at the end of the scenario: event 1; students 1 and 2, both
\* registered for it in this order; student 1 attended and gave feedback 5
ScenarioStore ==
    /\ events = <<EventRow(1, "Hack Day")>>
    /\ students = <<StudentRow(1, "Asha", "a@x.edu"), StudentRow(2, "Asha", "b@x.edu")>>
    /\ registrations =
        << [NewRegistration(1, 1, 1) EXCEPT !.attendance = 1, !.feedback = {5}],
           NewRegistration(2, 1, 2) >>

(* C11: on the store the scenario ends with, the registration report is the *)
(* one row of event 1 with count 2, the attendance report is event 1 with   *)
(* total 2, attended 1 and 50.00 percent, the feedback report is event 1    *)
(* with average 5.00, and the top-students report with limit 1 is student 1 *)
(* with 1 event attended and 1 registration.                                *)
C11_Scenario ==
    ScenarioStore =>
        /\ response.op = "report_registrations"
           => response.rows =
                << [id |-> 1, title |-> "Hack Day", type |-> "General",
                    college_id |-> "C-001", registrations |-> 2] >>
        /\ response.op = "report_attendance"
           => response.rows =
                << [id |-> 1, title |-> "Hack Day", total |-> 2, attended |-> 1,
                    attendance_pct |-> 5000] >>
        /\ response.op = "report_feedback"
           => response.rows = << [id |-> 1, title |-> "Hack Day", avg_feedback |-> 500] >>
        /\ (response.op = "report_top_students"
                /\ response.data.limit = [kind |-> "str", n |-> 1])
           => response.rows =
                << [id |-> 1, name |-> "Asha", email |-> "a@x.edu", college_id |-> "C-001",
                    events_attended |-> {1}, registrations |-> 1] >>

\* the scenario has been played and top-students with limit 1 has answered
C11_Witness ==
    /\ ScenarioStore
    /\ response.op = "report_top_students"
    /\ response.data.limit = [kind |-> "str", n |-> 1]
    /\ response.status = 200

----------------------------------------------------------------------------
(* C12, as the claim states it: the attendance report has one row per       *)
(* stored event with total = its registrations, attended = those marked     *)
(* attended, attended <= total, 0.0 percent for an event without            *)
(* registrations, and otherwise attendancePct exactly attended*100/total.   *)
C12_AttendanceRatesExact ==
    Answered("report_attendance") =>
        /\ OneRowEach(response.rows, Ids(events))
        /\ \A k \in 1..Len(response.rows) :
            LET row == response.rows[k]
            IN /\ row.total = Cardinality(RegsOfEvent(row.id))
               /\ row.attended = Cardinality(Attended(RegsOfEvent(row.id)))
               /\ row.attended <= row.total
               /\ IF row.total = 0
                  THEN row.attendance_pct = 0
                  ELSE row.attendance_pct * row.total = row.attended * 100 * 100

(* C12, amended: the same, with attendancePct = attended*100/total rounded  *)
(* to two decimal places.                                                   *)
C12_AttendanceRates ==
    Answered("report_attendance") =>
        /\ OneRowEach(response.rows, Ids(events))
        /\ \A k \in 1..Len(response.rows) :
            LET row == response.rows[k]
            IN /\ row.total = Cardinality(RegsOfEvent(row.id))
               /\ row.attended = Cardinality(Attended(RegsOfEvent(row.id)))
               /\ row.attended <= row.total
               /\ IF row.total = 0
                  THEN row.attendance_pct = 0
                  ELSE IsRounded(row.attendance_pct, row.attended * 100, row.total)

\* the report has answered for an event with three registrations, two of them
\* attended, and an event with none
C12_Witness ==
    /\ Answered("report_attendance")
    /\ \E j, k \in 1..Len(response.rows) :
        /\ response.rows[j].total = 3
        /\ response.rows[j].attended = 2
        /\ response.rows[k].total = 0

----------------------------------------------------------------------------
(* C13: the feedback report has a row for an event exactly when at least    *)
(* one registration of the event has feedback; events without registrations *)
(* and events whose registrations all lack feedback have no row; the        *)
(* average of a row is the mean, to two decimals, of the feedback of the    *)
(* registrations that have feedback.                                        *)
C13_AverageFeedback ==
    Answered("report_feedback") =>
        /\ OneRowEach(response.rows, {e.id : e \in {x \in Rows(events) : HasFeedback(x)}})
        /\ \A k \in 1..Len(response.rows) :
            LET bearing == FeedbackBearing(RegsOfEvent(response.rows[k].id))
            IN IsRounded(response.rows[k].avg_feedback, FeedbackSum(bearing),
                         Cardinality(bearing))

\* the report has answered on a store with an event that has registrations but
\* no feedback, and an event of which some registrations have feedback and some
\* have none
C13_Witness ==
    /\ Answered("report_feedback")
    /\ \E i \in 1..Len(events) :
        RegsOfEvent(events[i].id) # {} /\ ~HasFeedback(events[i])
    /\ \E k \in 1..Len(response.rows) :
        FeedbackBearing(RegsOfEvent(response.rows[k].id)) # RegsOfEvent(response.rows[k].id)

----------------------------------------------------------------------------
(* C14: a top-students answer for a limit of at least the number of         *)
(* students has one row per stored student, with eventsAttended the number  *)
(* of the student's registrations marked attended (the number 0, not null,  *)
(* for a student without registrations) and registrationCount the number of *)
(* the student's registrations.                                             *)
C14_TopStudentCounts ==
    (Answered("report_top_students") /\ LimitOf(response) >= Len(students)) =>
        /\ OneRowEach(response.rows, Ids(students))
        /\ \A k \in 1..Len(response.rows) :
            LET row == response.rows[k]
            IN /\ row.events_attended = {Cardinality(Attended(RegsOfStudent(row.id)))}
               /\ row.registrations = Cardinality(RegsOfStudent(row.id))

----------------------------------------------------------------------------
(* C15: for every integer limit the top-students answer is sorted by        *)
(* eventsAttended descending, then registrationCount descending, then name  *)
(* ascending, is a prefix of that order of all students (no student left    *)
(* out ranks before one that is in), and has min(limit, students) rows,     *)
(* none when limit is zero or negative.                                     *)
C15_TopStudentsTruncated ==
    Answered("report_top_students") =>
        LET rows == response.rows
            all == TopStudentRows
        IN /\ \A i, j \in 1..Len(rows) : i < j => ~RankedBefore(rows[j], rows[i])
           /\ \A i, j \in 1..Len(rows) : i # j => rows[i].id # rows[j].id
           /\ \A k \in 1..Len(rows) : rows[k] \in all
           /\ \A x \in all :
                (\A k \in 1..Len(rows) : rows[k].id # x.id)
                    => \A k \in 1..Len(rows) : ~RankedBefore(x, rows[k])
           /\ Len(rows) =
                IF LimitOf(response) <= 0 THEN 0
                ELSE IF LimitOf(response) < Len(students) THEN LimitOf(response)
                ELSE Len(students)

----------------------------------------------------------------------------
(* C16: a top-students request whose limit is no integer is answered with a *)
(* validation error (status 400), and the handler opens no connection to    *)
(* the store for it and changes no table.                                   *)
C16_MalformedLimitRejected ==
    [][(Rejected("report_top_students") /\ MalformedLimit(response'))
        => /\ response'.status = 400
           /\ UNCHANGED <<tables, open_conns>>]_vars

----------------------------------------------------------------------------
(* C17: the registration report has exactly one row for every stored event, *)
(* events without registrations included with count 0; the count of a row   *)
(* is the number of registrations stored for its event; the rows are in     *)
(* descending order of count and, among equal counts, ascending order of    *)
(* title.                                                                   *)
C17_RegistrationCounts ==
    Answered("report_registrations") =>
        /\ OneRowEach(response.rows, Ids(events))
        /\ \A k \in 1..Len(response.rows) :
            /\ response.rows[k].registrations = Cardinality(RegsOfEvent(response.rows[k].id))
            /\ \E i \in 1..Len(events) :
                events[i].id = response.rows[k].id /\ events[i].title = response.rows[k].title
        /\ \A i, j \in 1..Len(response.rows) :
            i < j => \/ response.rows[i].registrations > response.rows[j].registrations
                     \/ /\ response.rows[i].registrations = response.rows[j].registrations
                        /\ Rank(response.rows[i].title) <= Rank(response.rows[j].title)

\* the report has answered with an event that has registrations before an event
\* of a smaller title that has none
C17_Witness ==
    /\ Answered("report_registrations")
    /\ Len(response.rows) = 2
    /\ response.rows[1].registrations > 0
    /\ response.rows[2].registrations = 0
    /\ Rank(response.rows[2].title) < Rank(response.rows[1].title)

----------------------------------------------------------------------------
(* C18: every createEvent that inserts appends one row whose id is greater  *)
(* than the id of every event created before it (so ids are pairwise        *)
(* distinct and grow in the order of creation, however the calls of several *)
(* callers interleave); a rejected createEvent leaves the events and the id *)
(* counter as they were, so no id is handed out twice; no step changes or   *)
(* removes a stored event; and the call ends with status 201 and exactly    *)
(* the row with the id its own INSERT produced.                             *)
C18_EventIds ==
    [][/\ \A p \in Callers : Began(p, "create_event")
            => /\ Appended(events, events')
               /\ events'[Len(events')].id = call'[p].new_id
               /\ \A i \in 1..Len(events) : events[i].id < call'[p].new_id
       /\ Rejected("create_event")
            => UNCHANGED <<events, sqlite_sequence>>
       /\ SubSeq(events', 1, Len(events)) = events
       /\ \A p \in Callers : Finished(p, "create_event")
            => /\ response'.status = 201
               /\ Cardinality(response'.body) = 1
               /\ \A row \in response'.body :
                    /\ row.id = call[p].new_id
                    /\ \E i \in 1..Len(events) : events[i] = row
      ]_vars

\* a createEvent call has returned the row with id 1 after another call's
\* INSERT has stored the row with id 2
C18_Witness ==
    /\ response.op = "create_event"
    /\ response.status = 201
    /\ \E row \in response.body : row.id = 1
    /\ Len(events) = 2
    /\ events[2].id = 2

----------------------------------------------------------------------------
(* C19: no step of any handler removes a registration or changes the id,    *)
(* event_id, student_id or created_at of a stored registration (attendance  *)
(* and feedback are the only fields a step changes); no step removes or     *)
(* changes a stored event or student; and a list or report handler changes  *)
(* no table at all.                                                         *)
C19_RegistrationsKept ==
    [][/\ Len(registrations') >= Len(registrations)
       /\ \A i \in 1..Len(registrations) :
            \A k \in {"id", "event_id", "student_id", "created_at"} :
                registrations'[i][k] = registrations[i][k]
       /\ SubSeq(events', 1, Len(events)) = events
       /\ SubSeq(students', 1, Len(students)) = students
       /\ \A op \in ReadOps : Rejected(op) => UNCHANGED tables
      ]_vars

\* a registration made first has been marked attended and given feedback, a
\* second one has been made, and the list of registrations has answered
C19_Witness ==
    /\ Answered("list_registrations")
    /\ Len(registrations) = 2
    /\ registrations[1].attendance = 1
    /\ registrations[1].feedback = {5}
    /\ registrations[1].created_at < registrations[2].created_at

----------------------------------------------------------------------------
(* C20: every call of execute closes the connection it opened, on every     *)
(* path out of it, the path of a rejected INSERT included: between the      *)
(* statements of the handlers no connection is open.                        *)
C20_ConnectionsReleased ==
    open_conns = 0

====
